---- MODULE Spec2Model ----
(***************************************************************************)
(* Model of completion/pycomplete.py (python-mode.el 6.0.11): the import   *)
(* extractor, the code remover, the per-file PyCompleteDocument and the    *)
(* registry PyCompleteDocument._instances.                                  *)
(*                                                                         *)
(* Python strings are sequences of character codes (ASCII), so that        *)
(* split, rfind, startswith, slicing, sorting and os.path.commonprefix are *)
(* computed and not assumed.  File paths are only used as dictionary keys  *)
(* and are TLA+ strings.                                                    *)
(***************************************************************************)
EXTENDS Integers, Sequences, FiniteSets, TLC

\* ------------------------------------------------------------------------
\* Bounds of the model
\* ------------------------------------------------------------------------
\* number of PyCompleteDocument objects that may be allocated
MaxDocs == 3
\* longest module body (top-level statements) of the enumerated syntax trees
MaxStmts == 2

\* ------------------------------------------------------------------------
\* Character codes and the names used by the model
\* ------------------------------------------------------------------------
DOT == 46

s_empty == << >>
s_a     == <<97>>                      \* "a"
s_ab    == <<97, 98>>                  \* "ab"
s_abc   == <<97, 98, 99>>              \* "abc"
s_ab_   == <<97, 98, 46>>              \* "ab."
s_ab_c  == <<97, 98, 46, 99>>          \* "ab.c"
s_ab_d  == <<97, 98, 46, 100>>         \* "ab.d"
s_c     == <<99>>                      \* "c"
s_cd    == <<99, 100>>                 \* "cd"
s_d     == <<100>>                     \* "d"
s_i     == <<105>>                     \* "i"
s_id    == <<105, 100>>                \* "id"
s_if    == <<105, 102>>                \* "if"
s_o     == <<111>>                     \* "o"
s_os    == <<111, 115>>                \* "os"
s_self  == <<115, 101, 108, 102>>      \* "self"
s_open  == <<111, 112, 101, 110>>      \* "open"
s_None  == <<78, 111, 110, 101>>       \* "None"
s_A     == <<65>>                      \* "A"  (not class-name shaped: one letter)
s_Ab    == <<65, 98>>                  \* "Ab" (class-name shaped)
s_B     == <<66>>                      \* "B"
s_Bb    == <<66, 98>>                  \* "Bb"
s_f     == <<102>>                     \* "f"
s_g     == <<103>>                     \* "g"
s_x     == <<120>>                     \* "x"
s_y     == <<121>>                     \* "y"
s_zz    == <<122, 122>>                \* "zz"
s_future == <<95, 102>>                \* stands for "__future__"
s_class  == <<95, 99>>                 \* stands for "__class__"

\* ------------------------------------------------------------------------
\* Python str operations
\* ------------------------------------------------------------------------
Min2(a, b) == IF a <= b THEN a ELSE b

\* str.startswith
startswith(k, s) == Len(s) <= Len(k) /\ SubSeq(k, 1, Len(s)) = s

\* str < str : lexicographic on character codes
RECURSIVE StrLess(_, _)
StrLess(a, b) ==
  IF a = << >> THEN b # << >>
  ELSE IF b = << >> THEN FALSE
  ELSE IF Head(a) # Head(b) THEN Head(a) < Head(b)
  ELSE StrLess(Tail(a), Tail(b))

StrMin(S) == CHOOSE m \in S : \A k \in S : k = m \/ StrLess(m, k)
StrMax(S) == CHOOSE m \in S : \A k \in S : k = m \/ StrLess(k, m)

\* list(keys); list.sort()
RECURSIVE sorted(_)
sorted(S) == IF S = {} THEN << >> ELSE <<StrMin(S)>> \o sorted(S \ {StrMin(S)})

\* str.rfind('.') as a 1-based position, 0 when there is none (Python: -1)
RECURSIVE rfind_dot(_)
rfind_dot(s) ==
  IF s = << >> THEN 0
  ELSE IF s[Len(s)] = DOT THEN Len(s)
  ELSE rfind_dot(SubSeq(s, 1, Len(s) - 1))

\* str.split('.')
RECURSIVE split_dot(_)
split_dot(s) ==
  LET p == rfind_dot(s) IN
  IF p = 0 THEN <<s>>
  ELSE split_dot(SubSeq(s, 1, p - 1)) \o <<SubSeq(s, p + 1, Len(s))>>

\* '.'.join(parts)
RECURSIVE join_dot(_)
join_dot(parts) ==
  IF parts = << >> THEN << >>
  ELSE IF Len(parts) = 1 THEN parts[1]
  ELSE parts[1] \o <<DOT>> \o join_dot(Tail(parts))

Range(f) == {f[i] : i \in DOMAIN f}

\* os.path.commonprefix(m): compares min(m) and max(m) character by character
RECURSIVE commonprefix_walk(_, _, _)
commonprefix_walk(s1, s2, i) ==
  IF i > Len(s1) THEN s1
  ELSE IF s1[i] # s2[i] THEN SubSeq(s1, 1, i - 1)
  ELSE commonprefix_walk(s1, s2, i + 1)

commonprefix(m) ==
  IF m = << >> THEN << >>
  ELSE commonprefix_walk(StrMin(Range(m)), StrMax(Range(m)), 1)

\* ------------------------------------------------------------------------
\* Syntax trees (module ast).  A node is a record with a type field; only the
\* fields the visitors read are kept.
\* ------------------------------------------------------------------------
NoneValue == [type |-> "NoneType"]           \* Python None where a node is expected

Str(n)            == [type |-> "Str", len |-> n]
Num               == [type |-> "Num"]
Name(id)          == [type |-> "Name", id |-> id]
Attribute(v, a)   == [type |-> "Attribute", value |-> v, attr |-> a]
Call(func)        == [type |-> "Call", func |-> func]
List(elts)        == [type |-> "List", elts |-> elts]
Tuple(elts)       == [type |-> "Tuple", elts |-> elts]
Dict(keys)        == [type |-> "Dict", keys |-> keys]
ListComp          == [type |-> "ListComp"]
BinOp             == [type |-> "BinOp"]

Pass              == [type |-> "Pass"]
Import(n)         == [type |-> "Import", name |-> n]
ImportFrom(m, n)  == [type |-> "ImportFrom", module |-> m, name |-> n]
Expr(v)           == [type |-> "Expr", value |-> v]
Assign(ts, v)     == [type |-> "Assign", targets |-> ts, value |-> v]
If(body, orelse)  == [type |-> "If", body |-> body, orelse |-> orelse]
ExceptHandler(b)  == [type |-> "ExceptHandler", body |-> b]
TryExcept(b, hs)  == [type |-> "TryExcept", body |-> b, handlers |-> hs]
\* args: the parameter names; defaults: the default-value expressions
FunctionDef(n, args, defaults, body) ==
  [type |-> "FunctionDef", name |-> n, args |-> args, defaults |-> defaults,
   body |-> body]
ClassDef(n, bases, body) ==
  [type |-> "ClassDef", name |-> n, bases |-> bases, body |-> body]
Module(body)      == [type |-> "Module", body |-> body]

\* the guard both visitors build around a statement:
\* ast.TryExcept(body=[node], handlers=[ExceptHandler(None, None, [Pass()])])
Guarded(node)     == TryExcept(<<node>>, <<ExceptHandler(<<Pass>>)>>)

\* a local name for an intermediate result: With(v, LAMBDA x : e) is e with
\* x bound to v
With(v, Body(_)) == Body(v)

RECURSIVE Flatten(_)
Flatten(ss) == IF ss = << >> THEN << >> ELSE Head(ss) \o Flatten(Tail(ss))

\* ast.iter_child_nodes restricted to the children that are statements or
\* except handlers, in field order
ChildNodes(node) ==
  CASE node.type \in {"Module", "FunctionDef", "ClassDef", "ExceptHandler"}
         -> node.body
    [] node.type = "If"        -> node.body \o node.orelse
    [] node.type = "TryExcept" -> node.body \o node.handlers
    [] OTHER                   -> << >>

\* ------------------------------------------------------------------------
\* class ImportExtractor(ast.NodeVisitor)
\* ------------------------------------------------------------------------
\* visit(): visit_FunctionDef and visit_ClassDef do nothing; every other node
\* goes to generic_visit, which stores an import node and then visits the
\* children in field order.  The result is the value of self._import_nodes.
\* the visitor without visit_ClassDef: it descends into class bodies
RECURSIVE ImportExtractor_visit_into_classes(_)
ImportExtractor_visit_into_classes(node) ==
  IF node.type = "FunctionDef" THEN << >>
  ELSE (IF node.type \in {"Import", "ImportFrom"} THEN <<node>> ELSE << >>)
       \o Flatten([i \in DOMAIN ChildNodes(node) |->
                     ImportExtractor_visit_into_classes(ChildNodes(node)[i])])

RECURSIVE ImportExtractor_visit(_)
ImportExtractor_visit(node) ==
  IF node.type \in {"FunctionDef", "ClassDef"} THEN << >>
  ELSE (IF node.type \in {"Import", "ImportFrom"} THEN <<node>> ELSE << >>)
       \o Flatten([i \in DOMAIN ChildNodes(node) |->
                     ImportExtractor_visit(ChildNodes(node)[i])])

\* get_import_code up to compile(): the module whose body is the guarded
\* imports
get_import_body(node) ==
  With(ImportExtractor_visit(node), LAMBDA nodes :
    [i \in DOMAIN nodes |->
       IF nodes[i].type = "ImportFrom" /\ nodes[i].module = s_future
       THEN nodes[i]
       ELSE Guarded(nodes[i])])

\* ------------------------------------------------------------------------
\* class CodeRemover(ast.NodeTransformer)
\* ------------------------------------------------------------------------
IsUpper(c) == c >= 65 /\ c <= 90
IsAlnum(c) == IsUpper(c) \/ (c >= 97 /\ c <= 122) \/ (c >= 48 /\ c <= 57)

\* _classNameRe = re.compile(r'^_?[A-Z][A-Za-z0-9]+$') ; _classNameRe.match
classNameRe_match(name) ==
  LET rest == IF name # << >> /\ Head(name) = 95 THEN Tail(name) ELSE name IN
  /\ Len(rest) >= 2
  /\ IsUpper(rest[1])
  /\ \A i \in 2..Len(rest) : IsAlnum(rest[i])

\* Python 2 branch of the open() replacement: ast.Name(id='file')
s_file == <<102, 105, 108, 101>>       \* "file"

\* the right-hand side replace_unsafe_value leaves in the assignment, and
\* whether the assignment is wrapped in a try-except
neutralized(value) ==
  CASE value.type \in {"Str", "Num"} -> [value |-> value, wrap |-> FALSE]
    [] value.type = "List"     -> [value |-> List(<< >>), wrap |-> FALSE]
    [] value.type = "Tuple"    -> [value |-> Tuple(<< >>), wrap |-> FALSE]
    [] value.type = "Dict"     -> [value |-> Dict(<< >>), wrap |-> FALSE]
    [] value.type = "ListComp" -> [value |-> List(<< >>), wrap |-> FALSE]
    [] value.type = "Call" ->
         IF value.func.type = "Name"
         THEN IF value.func.id = s_open
              THEN [value |-> Name(s_file), wrap |-> TRUE]
              ELSE IF classNameRe_match(value.func.id)
              THEN [value |-> Name(value.func.id), wrap |-> TRUE]
              ELSE [value |-> Name(s_None), wrap |-> FALSE]
         ELSE IF value.func.type = "Attribute"
                 /\ classNameRe_match(value.func.attr)
              THEN [value |-> value.func, wrap |-> TRUE]
              ELSE [value |-> Name(s_None), wrap |-> FALSE]
    [] OTHER -> [value |-> Name(s_None), wrap |-> FALSE]

\* the test on the target made when replace_self is given
IsSelfTarget(node) ==
  /\ Len(node.targets) = 1
  /\ node.targets[1].type = "Attribute"
  /\ node.targets[1].value.type = "Name"
  /\ node.targets[1].value.id = s_self

\* the assignment node after replace_unsafe_value modified it in place
\* (replace_self = "": not given)
assign_in_place(node, replace_self) ==
  [node EXCEPT
     !.targets = IF replace_self # s_empty
                 THEN <<Attribute(Name(replace_self), node.targets[1].attr)>>
                 ELSE @,
     !.value = neutralized(@).value]

\* replace_unsafe_value(node, replace_self): the node returned, or None
replace_unsafe_value(node, replace_self) ==
  IF replace_self # s_empty /\ ~IsSelfTarget(node) THEN NoneValue
  ELSE With(assign_in_place(node, replace_self), LAMBDA new_node :
         IF neutralized(node.value).wrap THEN Guarded(new_node) ELSE new_node)

\* visit_FunctionDef: [node: the node returned or None, exc: exception raised]
visit_FunctionDef(node) ==
  IF node.body # << >>
  THEN IF node.body[1].type = "Expr" /\ node.body[1].value.type = "Str"
       THEN IF Len(node.body) < 2
            THEN [node |-> NoneValue, exc |-> "IndexError"]   \* node.body[1]
            ELSE [node |-> [node EXCEPT !.body = <<node.body[1], Pass>>],
                  exc |-> ""]
       ELSE [node |-> [node EXCEPT !.body = <<Pass>>], exc |-> ""]
  ELSE [node |-> NoneValue, exc |-> ""]

\* visit_Expr
visit_Expr(node) == IF node.value.type = "Str" THEN node ELSE NoneValue

\* visit_Assign
visit_Assign(node) == replace_unsafe_value(node, s_empty)

\* ast.walk(node): breadth first
RECURSIVE walk(_)
walk(level) ==
  IF level = << >> THEN << >>
  ELSE level \o walk(Flatten([i \in DOMAIN level |-> ChildNodes(level[i])]))

IsAssign(n) == n.type = "Assign"

\* the tree under a class after the loop of visit_ClassDef modified the
\* self assignments in place
RECURSIVE walked_in_place(_, _)
RECURSIVE walked_list(_, _)
walked_in_place(node, cname) ==
  CASE node.type = "Assign" ->
         IF IsSelfTarget(node) THEN assign_in_place(node, cname) ELSE node
    [] node.type \in {"Module", "FunctionDef", "ClassDef", "ExceptHandler"} ->
         [node EXCEPT !.body = walked_list(@, cname)]
    [] node.type = "If" ->
         [node EXCEPT !.body = walked_list(@, cname),
                      !.orelse = walked_list(@, cname)]
    [] node.type = "TryExcept" ->
         [node EXCEPT !.body = walked_list(@, cname),
                      !.handlers = walked_list(@, cname)]
    [] OTHER -> node

walked_list(stmts, cname) ==
  [i \in DOMAIN stmts |-> walked_in_place(stmts[i], cname)]

\* self_assignments is a sequence of [var, node] in insertion order
dict_index(d, var) ==
  IF \E i \in DOMAIN d : d[i].var = var
  THEN CHOOSE i \in DOMAIN d : d[i].var = var ELSE 0

\* the loop of visit_ClassDef over the assignments of ast.walk(node), from
\* the i-th on: [d: self_assignments, exc: exception raised]
RECURSIVE self_assignments_loop(_, _, _, _)
self_assignments_loop(assigns, i, cname, d) ==
  IF i > Len(assigns) THEN [d |-> d, exc |-> ""]
  ELSE
    With(replace_unsafe_value(assigns[i], cname), LAMBDA new_child :
    IF new_child = NoneValue
    THEN self_assignments_loop(assigns, i + 1, cname, d)
    ELSE
      With(assigns[i].targets[1].attr, LAMBDA new_var :
      With(dict_index(d, new_var), LAMBDA k :
      IF k = 0
      THEN self_assignments_loop(assigns, i + 1, cname,
             Append(d, [var |-> new_var, node |-> new_child]))
      ELSE IF d[k].node.type # "Assign"
      THEN [d |-> d, exc |-> "AttributeError"]      \* old_assign.value
      ELSE IF d[k].node.value.type = "Name" /\ d[k].node.value.id = s_None
      THEN self_assignments_loop(assigns, i + 1, cname,
             [d EXCEPT ![k] = [var |-> new_var, node |-> new_child]])
      ELSE self_assignments_loop(assigns, i + 1, cname, d))))

\* visit of one statement of a module or class body:
\* [out: the nodes put in its place, cls: the additions to
\*  self._class_assignments, exc: exception raised]
RECURSIVE CodeRemover_visit(_)
RECURSIVE CodeRemover_visit_body(_)

\* NodeTransformer.generic_visit on a statement list
CodeRemover_visit_body(stmts) ==
  IF stmts = << >> THEN [out |-> << >>, cls |-> << >>, exc |-> ""]
  ELSE
    With(CodeRemover_visit(Head(stmts)), LAMBDA h :
    IF h.exc # "" THEN h
    ELSE With(CodeRemover_visit_body(Tail(stmts)), LAMBDA t :
         [out |-> h.out \o t.out, cls |-> h.cls \o t.cls, exc |-> t.exc]))

\* what a visit method hands back to generic_visit: the node it returned
\* (None removes the statement) and the exception it raised
Visited(n, exc) ==
  [out |-> IF n = NoneValue \/ exc # "" THEN << >> ELSE <<n>>,
   cls |-> << >>, exc |-> exc]

IsNameOrAttribute(e) == e.type \in {"Name", "Attribute"}

\* visit_ClassDef
visit_ClassDef(node) ==
  With(self_assignments_loop(SelectSeq(walk(<<node>>), IsAssign), 1,
                             node.name, << >>), LAMBDA sa :
  IF sa.exc # "" THEN Visited(NoneValue, sa.exc)
  ELSE
    With(walked_in_place(node, node.name), LAMBDA m :
    With(CodeRemover_visit_body(m.body), LAMBDA b :
      [out |-> <<[m EXCEPT !.body = b.out,
                           !.bases = SelectSeq(@, IsNameOrAttribute)]>>,
       cls |-> [i \in DOMAIN sa.d |-> sa.d[i].node] \o b.cls,
       exc |-> b.exc])))

CodeRemover_visit(node) ==
  CASE node.type = "FunctionDef" ->
         With(visit_FunctionDef(node), LAMBDA r : Visited(r.node, r.exc))
    [] node.type = "Expr"     -> Visited(visit_Expr(node), "")
    [] node.type = "Assign"   -> Visited(visit_Assign(node), "")
    [] node.type = "ClassDef" -> visit_ClassDef(node)
    [] OTHER                  -> Visited(NoneValue, "")      \* generic_visit

\* get_transformed_code up to compile(): visit_Module, then
\* node.body.extend(self._class_assignments)
get_transformed_body(node) ==
  With(CodeRemover_visit_body(node.body), LAMBDA r :
    [body |-> IF r.exc # "" THEN << >> ELSE r.out \o r.cls, exc |-> r.exc])

\* ------------------------------------------------------------------------
\* The Python runtime the code runs in: objects, modules that can be
\* imported, builtins, and the execution of the statements the two visitors
\* emit.  A namespace (dict) is a function from names to objects.
\* ------------------------------------------------------------------------
EmptyDict == << >>
Put(d, k, v) == (k :> v) @@ d
Has(d, k) == k \in DOMAIN d

VNone         == [kind |-> "None"]
VNum          == [kind |-> "num"]
VStr(n)       == [kind |-> "str", len |-> n]
VSeq          == [kind |-> "emptyseq"]             \* [] or ()
VDict         == [kind |-> "dict"]
VModule(n)    == [kind |-> "module", name |-> n]
VFunction(n)  == [kind |-> "function", name |-> n]
VClass(n, at) == [kind |-> "class", name |-> n, attrs |-> at]

\* modules found on sys.path and the names each defines when imported;
\* package ab has the submodule ab.c, which becomes an attribute of ab only
\* once it has been imported (sys_modules)
ModuleAttrs ==
  (s_os :> {s_x, s_cd}) @@ (s_ab :> {s_d}) @@ (s_abc :> {}) @@ (s_ab_c :> {s_y})
Submodules == {s_ab_c}

\* the object an attribute of a module is bound to
ModuleAttrValue(m, a) ==
  IF m = s_os /\ a = s_cd THEN VFunction(a)
  ELSE IF m = s_ab /\ a = s_c THEN VModule(s_ab_c)
  ELSE VNum

\* keyword.kwlist and dir(__builtin__)
kwlist       == {s_if}
builtin_dir  == {s_id, s_file, s_None}

builtin_value(n) ==
  CASE n = s_None -> VNone
    [] n = s_file -> VClass(s_file, EmptyDict)
    [] OTHER      -> VFunction(n)

\* a valid feature name of __future__
future_features == {s_d}

Unbound == [kind |-> "unbound"]

\* name lookup of executed code: locals, then globals, then builtins
lookup(scope, g, n) ==
  IF Has(scope, n) THEN scope[n]
  ELSE IF Has(g, n) THEN g[n]
  ELSE IF n \in builtin_dir THEN builtin_value(n)
  ELSE Unbound

\* attributes of an object: dir(obj) without the names every object has
attrs_of(obj, mods) ==
  CASE obj.kind = "module" ->
         ModuleAttrs[obj.name]
           \cup {SubSeq(sm, Len(obj.name) + 2, Len(sm)) :
                   sm \in {q \in mods : startswith(q, obj.name \o <<DOT>>)}}
    [] obj.kind = "class" -> DOMAIN obj.attrs
    [] OTHER -> {}

\* the attributes of obj and, of the names every object has, __class__
all_attrs_of(obj, mods) == attrs_of(obj, mods) \cup {s_class}

dir(obj, mods) == sorted(attrs_of(obj, mods))

\* type(obj): a class object
TypeOf(obj) == VClass(s_class, EmptyDict)

\* getattr(obj, a); the attribute is one of all_attrs_of(obj, mods)
getattr(obj, a, mods) ==
  IF obj.kind = "class" /\ Has(obj.attrs, a) THEN obj.attrs[a]
  ELSE IF a = s_class THEN TypeOf(obj)
  ELSE IF (obj.name \o <<DOT>> \o a) \in mods THEN VModule(obj.name \o <<DOT>> \o a)
  ELSE ModuleAttrValue(obj.name, a)

\* evaluation of an expression of executed code: [val, exc]
RECURSIVE eval_node(_, _, _, _)
eval_node(e, scope, g, mods) ==
  CASE e.type = "Str"  -> [val |-> VStr(e.len), exc |-> ""]
    [] e.type = "Num"  -> [val |-> VNum, exc |-> ""]
    [] e.type \in {"List", "Tuple"} -> [val |-> VSeq, exc |-> ""]
    [] e.type = "Dict" -> [val |-> VDict, exc |-> ""]
    [] e.type = "Name" ->
         With(lookup(scope, g, e.id), LAMBDA v :
           IF v = Unbound THEN [val |-> VNone, exc |-> "NameError"]
           ELSE [val |-> v, exc |-> ""])
    [] e.type = "Attribute" ->
         With(eval_node(e.value, scope, g, mods), LAMBDA o :
           IF o.exc # "" THEN o
           ELSE IF e.attr \in all_attrs_of(o.val, mods)
           THEN [val |-> getattr(o.val, e.attr, mods), exc |-> ""]
           ELSE [val |-> VNone, exc |-> "AttributeError"])
    [] OTHER -> [val |-> VNone, exc |-> ""]

\* target list unpacking of a tuple target with n names: "" or the exception
unpack_exc(v, n) ==
  CASE v.kind = "str"      -> IF v.len = n THEN "" ELSE "ValueError"
    [] v.kind = "emptyseq" -> IF n = 0 THEN "" ELSE "ValueError"
    [] v.kind = "dict"     -> IF n = 0 THEN "" ELSE "ValueError"
    [] OTHER               -> "TypeError"

\* binding of one assignment target: [scope, exc]
bind_target(t, v, scope, g, mods) ==
  CASE t.type = "Name" -> [scope |-> Put(scope, t.id, v), exc |-> ""]
    [] t.type = "Tuple" ->
         With(unpack_exc(v, Len(t.elts)), LAMBDA x :
           IF x # "" THEN [scope |-> scope, exc |-> x]
           ELSE [scope |-> [k \in DOMAIN scope
                                    \cup {t.elts[i].id : i \in DOMAIN t.elts}
                              |-> IF \E i \in DOMAIN t.elts : t.elts[i].id = k
                                  THEN VStr(1) ELSE scope[k]],
                 exc |-> ""])
    [] t.type = "Attribute" ->
         With(eval_node(t.value, scope, g, mods), LAMBDA o :
           IF o.exc # "" THEN [scope |-> scope, exc |-> o.exc]
           ELSE IF o.val.kind = "class"
           THEN \* the class object is shared by every name bound to it
                [scope |-> [k \in DOMAIN scope |->
                              IF scope[k].kind = "class"
                                 /\ scope[k].name = o.val.name
                              THEN [scope[k] EXCEPT !.attrs = Put(@, t.attr, v)]
                              ELSE scope[k]],
                 exc |-> ""]
           ELSE IF o.val.kind \in {"module", "function"}
           THEN [scope |-> scope, exc |-> ""]
           ELSE [scope |-> scope, exc |-> "AttributeError"])
    [] OTHER -> [scope |-> scope, exc |-> ""]

RECURSIVE bind_targets(_, _, _, _, _)
bind_targets(ts, v, scope, g, mods) ==
  IF ts = << >> THEN [scope |-> scope, exc |-> ""]
  ELSE With(bind_target(Head(ts), v, scope, g, mods), LAMBDA r :
         IF r.exc # "" THEN r ELSE bind_targets(Tail(ts), v, r.scope, g, mods))

RECURSIVE eval_all(_, _, _, _)
eval_all(es, scope, g, mods) ==
  IF es = << >> THEN << >>
  ELSE <<eval_node(Head(es), scope, g, mods)>> \o eval_all(Tail(es), scope, g, mods)

FirstExc(rs) ==
  IF \E i \in DOMAIN rs : rs[i].exc # ""
  THEN rs[CHOOSE i \in DOMAIN rs :
            rs[i].exc # "" /\ \A j \in 1..(i - 1) : rs[j].exc = ""].exc
  ELSE ""

\* exec of a statement list in the namespaces (g, scope); future_ok tells
\* whether the runtime import of __future__ succeeds.
\* Result: [scope, mods, exc]
RECURSIVE exec_body(_, _, _, _, _)
RECURSIVE exec_stmt(_, _, _, _, _)

\* the statement left the namespaces alone and raised x ("": nothing)
Same(scope, mods, x) == [scope |-> scope, mods |-> mods, exc |-> x]

\* the statement bound the name n to v
Binds(scope, mods, n, v) ==
  [scope |-> Put(scope, n, v), mods |-> mods, exc |-> ""]

exec_body(stmts, scope, g, mods, future_ok) ==
  IF stmts = << >> THEN Same(scope, mods, "")
  ELSE With(exec_stmt(Head(stmts), scope, g, mods, future_ok), LAMBDA r :
         IF r.exc # "" THEN r
         ELSE exec_body(Tail(stmts), r.scope, g, r.mods, future_ok))

exec_stmt(st, scope, g, mods, future_ok) ==
  CASE st.type = "Import" ->
         IF Has(ModuleAttrs, st.name) /\ st.name \notin Submodules
         THEN Binds(scope, mods, st.name, VModule(st.name))
         ELSE Same(scope, mods, "ImportError")
    [] st.type = "ImportFrom" ->
         IF st.module = s_future
         THEN IF future_ok
              THEN Binds(scope, mods, st.name, VNum)
              ELSE Same(scope, mods, "ImportError")
         ELSE IF Has(ModuleAttrs, st.module)
                 /\ st.name \in attrs_of(VModule(st.module), mods)
         THEN Binds(scope, mods, st.name,
                    getattr(VModule(st.module), st.name, mods))
         ELSE Same(scope, mods, "ImportError")
    [] st.type = "TryExcept" ->
         With(exec_body(st.body, scope, g, mods, future_ok), LAMBDA r :
           IF r.exc = "" THEN r
           ELSE exec_body(st.handlers[1].body, r.scope, g, r.mods, future_ok))
    [] st.type \in {"FunctionDef", "ClassDef"} ->
         \* the defaults of a def, the bases of a class
         With(eval_all(IF st.type = "ClassDef" THEN st.bases ELSE st.defaults,
                       scope, g, mods), LAMBDA es :
           IF FirstExc(es) # "" THEN Same(scope, mods, FirstExc(es))
           ELSE IF st.type = "FunctionDef"
           THEN Binds(scope, mods, st.name, VFunction(st.name))
           ELSE IF \E i \in DOMAIN es : es[i].val.kind # "class"
           THEN Same(scope, mods, "TypeError")
           ELSE With(exec_body(st.body, EmptyDict, g, mods, future_ok), LAMBDA c :
                  IF c.exc # "" THEN Same(scope, mods, c.exc)
                  ELSE Binds(scope, c.mods, st.name, VClass(st.name, c.scope))))
    [] st.type = "Assign" ->
         With(eval_node(st.value, scope, g, mods), LAMBDA v :
           IF v.exc # "" THEN Same(scope, mods, v.exc)
           ELSE With(bind_targets(st.targets, v.val, scope, g, mods), LAMBDA b :
                  [scope |-> b.scope, mods |-> mods, exc |-> b.exc]))
    [] OTHER -> Same(scope, mods, "")                      \* Pass, Expr(Str)

\* compile(node, fname, 'exec') of the import module: "" or the exception.
\* A __future__ import must name a feature and must precede every other
\* statement.
compile_imports_exc(body) ==
  IF \E i \in DOMAIN body :
       /\ body[i].type = "ImportFrom"
       /\ \/ body[i].name \notin future_features
          \/ \E j \in 1..(i - 1) : body[j].type # "ImportFrom"
  THEN "SyntaxError" ELSE ""

HasDuplicates(q) == \E i, j \in DOMAIN q : i # j /\ q[i] = q[j]

\* compile(node, fname, 'exec') of the reduced module: "" or the exception.
\* The function definitions kept by the reducer keep their parameter lists.
RECURSIVE compile_reduced_exc(_)
compile_reduced_exc(body) ==
  IF \E i \in DOMAIN body :
       \/ body[i].type = "FunctionDef" /\ HasDuplicates(body[i].args)
       \/ body[i].type = "ClassDef" /\ compile_reduced_exc(body[i].body) # ""
  THEN "SyntaxError" ELSE ""

\* ------------------------------------------------------------------------
\* Source files on disk: whether open() succeeds, whether ast.parse accepts
\* the text, the tree ast.parse returns
\* ------------------------------------------------------------------------
\* future_ok: whether "from __future__ import ..." succeeds when executed in
\* the directory of the file (it fails when a module there shadows __future__)
SourceFile(tree) ==
  [exists |-> TRUE, syntax_ok |-> TRUE, future_ok |-> TRUE, tree |-> tree]
ShadowedFile(tree) ==
  [exists |-> TRUE, syntax_ok |-> TRUE, future_ok |-> FALSE, tree |-> tree]
MissingFile ==
  [exists |-> FALSE, syntax_ok |-> TRUE, future_ok |-> TRUE, tree |-> Module(<< >>)]
BrokenFile ==
  [exists |-> TRUE, syntax_ok |-> FALSE, future_ok |-> TRUE, tree |-> Module(<< >>)]

\* fname=None
NoFname == "None"

\* os.path.dirname
dirname(fname) ==
  CASE fname = "/d/a.py" -> "/d"
    [] fname = "/e/b.py" -> "/e"
    [] OTHER -> ""

\* ------------------------------------------------------------------------
\* class PyCompleteDocument
\* ------------------------------------------------------------------------
\* globals() of the module pycomplete
module_globals == (s_os :> VModule(s_os))

\* __init__
PyCompleteDocument(fname) ==
  [fname |-> fname,
   imports |-> NoneValue,
   locald |-> EmptyDict,
   globald |-> module_globals,
   symnames |-> << >>,
   symobjs |-> EmptyDict,
   parse_source_called |-> FALSE]

\* The methods are operators on a frame
\*   [self: the document, mods: sys.modules (submodules imported so far),
\*    cwd: the working directory, ret: the value returned,
\*    exc: the exception that left the method ("" for none),
\*    parses: how often _import_modules called parse_source,
\*    mid: the document when _import_modules was left (None: not called),
\*    cands: the list get_all_completions handed to complete (None: not
\*           called),
\*    trail: the calls of _get_symbol_object so far, each [s, val]]
\* An error string returned to the caller is [type |-> "str", text |-> ...].
\* A Python list handed in or out is [type |-> "list", items |-> ...].
RetStr(t)  == [type |-> "str", text |-> t]
PyList(l)  == [type |-> "list", items |-> l]

Frame(self, mods, cwd) ==
  [self |-> self, mods |-> mods, cwd |-> cwd, ret |-> NoneValue, exc |-> "",
   parses |-> 0, mid |-> NoneValue, cands |-> NoneValue, trail |-> << >>]

Return(fr, v) == [fr EXCEPT !.ret = v]
Raise(fr, e)  == [fr EXCEPT !.exc = e, !.ret = NoneValue]

\* the except branch of the import execution in parse_source:
\* self._globald = old_globald; self._locald = old_locald
\* the except branch without self._locald = old_locald
restore_namespaces_keeps_locald(fr, old_globald, old_locald) ==
  [fr EXCEPT !.self.globald = old_globald]

restore_namespaces(fr, old_globald, old_locald) ==
  [fr EXCEPT !.self.globald = old_globald, !.self.locald = old_locald]

\* os.chdir(os.path.dirname(self._fname))
chdir_to_file(fr) == [fr EXCEPT !.cwd = dirname(fr.self.fname)]

\* parse_source from the execution of the reduced code on: fr holds the
\* namespace the imports built, symnames and symobjs cleared
parse_source_reduced(fr, file) ==
  With(get_transformed_body(file.tree), LAMBDA reduced :
  IF reduced.exc # "" THEN Raise(fr, reduced.exc)
  ELSE
  With(compile_reduced_exc(reduced.body), LAMBDA compile_exc :
  IF compile_exc # "" THEN Raise(fr, compile_exc)
  ELSE
  With(exec_body(reduced.body, fr.self.locald, fr.self.globald, fr.mods,
                 file.future_ok), LAMBDA run :
    Return([fr EXCEPT !.self.locald = run.scope, !.mods = run.mods],
           IF run.exc # "" THEN RetStr(run.exc) ELSE NoneValue))))

\* parse_source from ast.parse on: fr is the frame after os.chdir
parse_source_tree(fr, file) ==
  With(get_import_body(file.tree), LAMBDA import_body :
  With(compile_imports_exc(import_body), LAMBDA compile_exc :
  IF compile_exc # "" THEN Return(fr, RetStr(compile_exc))
  ELSE
  With(exec_body(import_body, EmptyDict, fr.self.globald, fr.mods,
                 file.future_ok), LAMBDA imp :
  \* exec binds into the fresh self._locald as it goes
  With([fr EXCEPT !.self.locald = imp.scope, !.mods = imp.mods], LAMBDA frx :
  IF imp.exc # ""
  THEN Return(restore_namespaces(frx, fr.self.globald, fr.self.locald),
              RetStr(imp.exc))
  ELSE parse_source_reduced([frx EXCEPT !.self.symnames = << >>,
                                        !.self.symobjs = EmptyDict], file)))))

\* parse_source(self, only_reload); file is what is on disk at self._fname
parse_source(fr0, only_reload, file) ==
  IF only_reload /\ ~fr0.self.parse_source_called THEN Return(fr0, NoneValue)
  ELSE
  With([fr0 EXCEPT !.self.parse_source_called = TRUE], LAMBDA fr1 :
  IF fr1.self.fname = NoFname THEN Return(fr1, NoneValue)
  ELSE IF ~file.exists THEN Return(fr1, RetStr("IOError"))
  ELSE IF ~file.syntax_ok THEN Return(chdir_to_file(fr1), RetStr("SyntaxError"))
  ELSE parse_source_tree(chdir_to_file(fr1), file))

\* an element of the imports list that is not a string: exec() raises TypeError
BadStmt == [type |-> "int"]

\* exec(stmt, self._globald, self._locald) for one statement of the imports
\* list: [scope, mods, exc]
exec_import_stmt(stmt, locald, globald, mods) ==
  IF stmt = BadStmt THEN [scope |-> locald, mods |-> mods, exc |-> "TypeError"]
  ELSE exec_stmt(stmt, locald, globald, mods, TRUE)

\* the loop of _import_modules over the statements from the i-th on
RECURSIVE import_loop(_, _, _)
import_loop(fr, imports, i) ==
  IF i > Len(imports.items) THEN fr
  ELSE
    With(exec_import_stmt(imports.items[i], fr.self.locald,
                          fr.self.globald, fr.mods), LAMBDA r :
    IF r.exc = "TypeError" THEN Raise(fr, "TypeError")
    ELSE IF r.exc # "" THEN import_loop(fr, imports, i + 1)
    ELSE import_loop([fr EXCEPT !.self.locald = r.scope, !.mods = r.mods],
                     imports, i + 1))

\* the test that makes _import_modules parse the file:
\* imports is None and not self._parse_source_called
\* the test without the flag: imports is None
parses_first_always(self, imports) == imports = NoneValue

parses_first(self, imports) ==
  imports = NoneValue /\ ~self.parse_source_called

\* self._locald = {}; self._symnames = []; self._symobjs = {}
\* the clearing without self._locald = {}
clear_namespace_keeps_locald(fr) ==
  [fr EXCEPT !.self.symnames = << >>, !.self.symobjs = EmptyDict]

clear_namespace(fr) ==
  [fr EXCEPT !.self.locald = EmptyDict,
             !.self.symnames = << >>,
             !.self.symobjs = EmptyDict]

\* os.chdir(os.path.dirname(self._fname)) if self._fname
chdir_if_fname(fr) ==
  IF fr.self.fname # NoFname THEN chdir_to_file(fr) ELSE fr

\* _import_modules after the parse: fr1 is the frame the parse left
import_modules_apply(fr1, imports) ==
  IF fr1.exc # "" THEN fr1
  ELSE IF imports = NoneValue \/ imports = fr1.self.imports
  THEN Return(fr1, NoneValue)
  ELSE
    With(import_loop(clear_namespace(chdir_if_fname(fr1)), imports, 1),
         LAMBDA fr3 :
      IF fr3.exc # "" THEN fr3
      ELSE Return([fr3 EXCEPT !.self.imports = imports], NoneValue))

\* _import_modules(self, imports)
import_modules_body(fr0, imports, file) ==
  import_modules_apply(
    IF parses_first(fr0.self, imports)
    THEN parse_source([fr0 EXCEPT !.parses = @ + 1], FALSE, file)
    ELSE fr0,
    imports)

import_modules(fr0, imports, file) ==
  With(import_modules_body(fr0, imports, file), LAMBDA fr :
    [fr EXCEPT !.mid = fr.self])

\* _collect_symbol_names(self)
collect_symbol_names(fr) ==
  IF fr.self.symnames = << >>
  THEN [fr EXCEPT !.self.symnames =
          sorted(kwlist \cup DOMAIN fr.self.locald \cup DOMAIN fr.self.globald
                   \cup builtin_dir)]
  ELSE fr

\* eval(s, self._globald, self._locald): [val, exc]
RECURSIVE expr_of(_)
expr_of(dots) ==
  IF Len(dots) = 1 THEN Name(dots[1])
  ELSE Attribute(expr_of(SubSeq(dots, 1, Len(dots) - 1)), dots[Len(dots)])

eval_str(s, globald, locald, mods) ==
  With(split_dot(s), LAMBDA dots :
    IF \E i \in DOMAIN dots : dots[i] = << >> \/ dots[i] \in kwlist
    THEN [val |-> VNone, exc |-> "SyntaxError"]
    ELSE eval_node(expr_of(dots), locald, globald, mods))

\* __import__(s, self._globald, self._locald, []): the top-level package is
\* returned; [val, mods, exc]
import_module(s, mods) ==
  IF Has(ModuleAttrs, s)
  THEN [val |-> VModule(split_dot(s)[1]),
        mods |-> mods \cup ({s} \cap Submodules), exc |-> ""]
  ELSE [val |-> VNone, mods |-> mods, exc |-> "ImportError"]

\* dict.get(s) of self._symobjs
symobjs_get(self, s) == IF Has(self.symobjs, s) THEN self.symobjs[s] ELSE VNone

\* self._symobjs[s] = sym, if sym is not None
symobjs_put(fr, s) ==
  IF fr.ret # VNone THEN [fr EXCEPT !.self.symobjs = Put(@, s, fr.ret)] ELSE fr

\* the except branches of _get_symbol_object: ev is what eval gave, im what
\* __import__ gives
symbol_or_module(fr1, s, ev, im) ==
  CASE ev.exc = "NameError" ->
         IF im.exc = ""
         THEN Return([fr1 EXCEPT !.self.locald = Put(@, s, im.val),
                                 !.mods = im.mods], im.val)
         ELSE Return(fr1, VNone)
    [] ev.exc = "AttributeError" ->
         IF im.exc = ""
         THEN Return([fr1 EXCEPT !.mods = im.mods], im.val)
         ELSE Return(fr1, VNone)
    [] ev.exc = "SyntaxError" -> Return(fr1, VNone)
    [] OTHER -> Return(fr1, ev.val)

\* the frame when _get_symbol_object(s) returns
Tried(fr, s) == [fr EXCEPT !.trail = Append(@, [s |-> s, val |-> fr.ret])]

\* _get_symbol_object(self, s); ret is the symbol or VNone
get_symbol_object(fr0, s) ==
  With(symobjs_get(fr0.self, s), LAMBDA sym :
  IF sym # VNone THEN Tried(Return(fr0, sym), s)
  ELSE
    With(chdir_if_fname(fr0), LAMBDA fr1 :
      Tried(
        symobjs_put(
          symbol_or_module(fr1, s,
            eval_str(s, fr1.self.globald, fr1.self.locald, fr1.mods),
            import_module(s, fr1.mods)),
          s),
        s)))

\* the first symbol found in place of the last one
found_first(sym, sym_i) == IF sym # VNone THEN sym ELSE sym_i

\* sym after "if sym_i is not None: sym = sym_i"
found(sym, sym_i) == IF sym_i # VNone THEN sym_i ELSE sym

\* the loop of _load_symbol over i in range(1, len(dots) + 1), sym being the
\* last symbol found
RECURSIVE load_symbol_loop(_, _, _, _, _)
load_symbol_loop(fr, dots, i, sym, strict) ==
  IF i > Len(dots) THEN Return(fr, sym)
  ELSE
    With(join_dot(SubSeq(dots, 1, i)), LAMBDA s :
    IF s = << >> THEN load_symbol_loop(fr, dots, i + 1, sym, strict)
    ELSE
      With(get_symbol_object(fr, s), LAMBDA fr1 :
      IF fr1.ret = VNone /\ strict THEN Return(fr1, VNone)
      ELSE load_symbol_loop(fr1, dots, i + 1, found(sym, fr1.ret), strict)))

\* _load_symbol(self, s, strict)
load_symbol(fr, s, strict) ==
  With(symobjs_get(fr.self, s), LAMBDA sym :
  IF sym # VNone THEN Return(fr, sym)
  ELSE IF s = << >> \/ Len(split_dot(s)) = 1 THEN get_symbol_object(fr, s)
  ELSE load_symbol_loop(fr, split_dot(s), 1, VNone, strict))

\* [k for k in names if k.startswith(s)]
filter_startswith(names, s) == SelectSeq(names, LAMBDA k : startswith(k, s))

\* get_all_completions after self._import_modules(imports)
completions_of(fr1, s, last_dot_pos) ==
  IF fr1.exc # "" THEN fr1
  ELSE IF last_dot_pos = 0
  THEN With(collect_symbol_names(fr1), LAMBDA fr2 :
         IF s # << >>
         THEN Return(fr2, PyList(filter_startswith(fr2.self.symnames, s)))
         ELSE Return(fr2, PyList(fr2.self.symnames)))
  ELSE
    With(load_symbol(fr1, SubSeq(s, 1, last_dot_pos - 1), TRUE), LAMBDA fr2 :
      IF fr2.ret # VNone
      THEN Return(fr2, PyList(filter_startswith(dir(fr2.ret, fr2.mods),
                                SubSeq(s, last_dot_pos + 1, Len(s)))))
      ELSE Return(fr2, PyList(<< >>)))

\* get_all_completions(self, s, imports); ret is a list of names
get_all_completions(fr0, s, imports, file) ==
  completions_of(import_modules(fr0, imports, file), s, rfind_dot(s))

\* the test that makes complete return the completed part only:
\* len(completions) == 1 or len(prefix) > len(dots[-1])
\* the test with >= in place of >
completes_uniquely_or_equal(completions, prefix, dots) ==
  Len(completions) = 1 \/ Len(prefix) >= Len(dots[Len(dots)])

completes_uniquely(completions, prefix, dots) ==
  Len(completions) = 1 \/ Len(prefix) > Len(dots[Len(dots)])

\* complete after get_all_completions returned completions in frame fr1
completed(fr1, completions, prefix, dots) ==
  IF Len(completions) = 0 THEN Return(fr1, NoneValue)
  ELSE IF completes_uniquely(completions, prefix, dots)
  THEN Return(fr1, PyList(<<SubSeq(prefix, Len(dots[Len(dots)]) + 1,
                                    Len(prefix))>>))
  ELSE Return(fr1, PyList(completions))

\* complete(self, s, imports)
complete(fr0, s, imports, file) ==
  IF s = << >> THEN Return(fr0, RetStr(""))
  ELSE
    With(get_all_completions(fr0, s, imports, file), LAMBDA fr1 :
      IF fr1.exc # "" THEN fr1
      ELSE completed([fr1 EXCEPT !.cands = fr1.ret], fr1.ret.items,
                     commonprefix(fr1.ret.items), split_dot(s)))

\* the try block shared by _get_help, get_docstring, get_signature and
\* get_location: self._import_modules(imports); self._load_symbol(s, strict)
lookup_symbol(fr0, s, imports, strict, file) ==
  With(import_modules(fr0, imports, file), LAMBDA fr1 :
    IF fr1.exc # "" THEN fr1 ELSE load_symbol(fr1, s, strict))

\* what is left of a frame when the exception is caught
Caught(fr, v) == [fr EXCEPT !.exc = "", !.ret = v]

\* help(self, s, imports) with _get_help
help(fr0, s, imports, file) ==
  IF s = << >> THEN Return(fr0, RetStr(""))
  ELSE IF s \in kwlist THEN Return(fr0, RetStr("help"))
  ELSE
    With(lookup_symbol(fr0, s, imports, FALSE, file), LAMBDA fr1 :
      IF fr1.exc # "" THEN Caught(fr1, RetStr(fr1.exc))
      ELSE Return(fr1, RetStr("help")))

HasDoc(obj) == obj.kind \in {"module", "function", "class"}

\* get_docstring(self, s, imports)
get_docstring(fr0, s, imports, file) ==
  IF s # << >> /\ s \notin kwlist
  THEN With(lookup_symbol(fr0, s, imports, TRUE, file), LAMBDA fr1 :
         IF fr1.exc # "" THEN Caught(fr1, RetStr(""))
         ELSE IF HasDoc(fr1.ret) THEN Return(fr1, RetStr("doc"))
         ELSE Return(fr1, RetStr("")))
  ELSE Return(fr0, RetStr(""))

\* get_signature(self, s, imports)
get_signature(fr0, s, imports, file) ==
  IF s = << >> \/ s \in kwlist THEN Return(fr0, RetStr(""))
  ELSE
    With(lookup_symbol(fr0, s, imports, FALSE, file), LAMBDA fr1 :
      IF fr1.exc # "" THEN Caught(fr1, RetStr(fr1.exc))
      ELSE IF HasDoc(fr1.ret) THEN Return(fr1, RetStr("sig"))
      ELSE Return(fr1, RetStr("")))

\* get_location(self, s, imports)
get_location(fr0, s, imports, file) ==
  IF s = << >> \/ s \in kwlist THEN Return(fr0, NoneValue)
  ELSE
    With(lookup_symbol(fr0, s, imports, FALSE, file), LAMBDA fr1 :
      IF fr1.exc # "" THEN Caught(fr1, NoneValue)
      ELSE IF HasDoc(fr1.ret) THEN Return(fr1, [type |-> "tuple"])
      ELSE Return(fr1, NoneValue))

\* ------------------------------------------------------------------------
\* The process: the registry PyCompleteDocument._instances, the documents,
\* the files on disk, sys.modules and the working directory
\* ------------------------------------------------------------------------
VARIABLES
  instances,    \* _instances: fname -> index of the document in docs
  docs,         \* the PyCompleteDocument objects, in order of creation
  files,        \* path -> what is on disk
  sys_modules,  \* submodules imported so far
  cwd,          \* os.getcwd()
  last,         \* the last call of an entry point: arguments and outcome
  attempted     \* history: the fnames whose document ran parse_source

vars == <<instances, docs, files, sys_modules, cwd, last, attempted>>

\* sources a file may hold
T_ok      == Module(<<Import(s_ab), Assign(<<Name(s_x)>>, Num)>>)
T_future  == Module(<<ImportFrom(s_future, s_d), Import(s_abc)>>)
T_doconly == Module(<<Import(s_abc),
                      FunctionDef(s_f, << >>, << >>, <<Expr(Str(1))>>)>>)
T_dupargs == Module(<<Import(s_ab),
                      FunctionDef(s_f, <<s_a, s_a>>, << >>, <<Pass>>)>>)

Files == {MissingFile, BrokenFile, SourceFile(T_ok), SourceFile(T_future),
          ShadowedFile(T_future), SourceFile(T_doconly), SourceFile(T_dupargs)}

\* inputs of the entry points
Paths  == {"/d/a.py", "/e/b.py"}
Fnames == {NoFname} \cup Paths
Exprs  == {s_empty, s_a, s_i, s_ab_}
\* the expressions get_all_completions is called with
ListExprs == {s_a, s_ab_}

\* imports lists a caller passes: "import ab", "import abc", a list whose
\* second element is not a string, a list whose first import fails
ImportLists == {PyList(<<Import(s_ab)>>),
                PyList(<<Import(s_abc)>>),
                PyList(<<Import(s_abc), BadStmt>>),
                PyList(<<Import(s_zz), Import(s_ab)>>)}
ImportArgs  == {NoneValue} \cup ImportLists

\* the smaller inputs of the lookups (help, docstring, signature, location)
LookupExprs   == {s_ab}
LookupImports == {NoneValue, PyList(<<Import(s_abc), BadStmt>>)}

\* last: the entry point called and its arguments, ret: the value returned,
\* exc: the exception that reached the caller, cached: self._imports when the
\* call began, parses, mid and cands: as in the frame
NoCall == [op |-> "none", fname |-> NoFname, s |-> << >>, imports |-> NoneValue,
           only_reload |-> FALSE, ret |-> NoneValue, exc |-> "",
           cached |-> NoneValue, parses |-> 0, mid |-> NoneValue,
           cands |-> NoneValue, trail |-> << >>]

Init ==
  /\ instances = EmptyDict
  /\ docs = << >>
  /\ files \in [Paths -> {MissingFile}]
  /\ sys_modules = {}
  /\ cwd = "/"
  /\ last = NoCall
  /\ attempted = {}

\* instance without the lookup in _instances: every call makes a document
instance_always_new(fname) ==
  [instances |-> Put(instances, fname, Len(docs) + 1),
   docs |-> Append(docs, PyCompleteDocument(fname)),
   id |-> Len(docs) + 1]

\* PyCompleteDocument.instance(fname): [instances, docs, id]
instance(fname) ==
  IF Has(instances, fname)
  THEN [instances |-> instances, docs |-> docs, id |-> instances[fname]]
  ELSE [instances |-> Put(instances, fname, Len(docs) + 1),
        docs |-> Append(docs, PyCompleteDocument(fname)),
        id |-> Len(docs) + 1]

FileAt(fname) == IF fname \in Paths THEN files[fname] ELSE MissingFile

\* the frame a method of instance(fname) starts in
Enter(fname) ==
  Frame(instance(fname).docs[instance(fname).id], sys_modules, cwd)

\* the state after the method called on instance(fname) ended in frame fr
Leave(op, fname, s, imports, only_reload, fr) ==
  /\ Len(instance(fname).docs) <= MaxDocs
  /\ instances' = instance(fname).instances
  /\ docs' = [instance(fname).docs EXCEPT ![instance(fname).id] = fr.self]
  /\ sys_modules' = fr.mods
  /\ cwd' = fr.cwd
  /\ last' = [op |-> op, fname |-> fname, s |-> s, imports |-> imports,
              only_reload |-> only_reload, ret |-> fr.ret, exc |-> fr.exc,
              cached |-> Enter(fname).self.imports,
              parses |-> fr.parses, mid |-> fr.mid, cands |-> fr.cands,
              trail |-> fr.trail]
  /\ attempted' = IF fr.parses > 0
                    \/ (op = "parse_source"
                          /\ (~only_reload \/ fname \in attempted))
                 THEN attempted \cup {fname} ELSE attempted
  /\ UNCHANGED files

\* the module-level functions, called with fname in FN, s in EX and imports
\* in IM
GetAllCompletions(FN, EX, IM) ==
  \E fname \in FN, s \in EX, imports \in IM :
    Leave("get_all_completions", fname, s, imports, FALSE,
          get_all_completions(Enter(fname), s, imports, FileAt(fname)))

PyComplete(FN, EX, IM) ==
  \E fname \in FN, s \in EX, imports \in IM :
    Leave("pycomplete", fname, s, imports, FALSE,
          complete(Enter(fname), s, imports, FileAt(fname)))

PyHelp(FN, EX, IM) ==
  \E fname \in FN, s \in EX, imports \in IM :
    Leave("pyhelp", fname, s, imports, FALSE,
          help(Enter(fname), s, imports, FileAt(fname)))

PyDocstring(FN, EX, IM) ==
  \E fname \in FN, s \in EX, imports \in IM :
    Leave("pydocstring", fname, s, imports, FALSE,
          get_docstring(Enter(fname), s, imports, FileAt(fname)))

PySignature(FN, EX, IM) ==
  \E fname \in FN, s \in EX, imports \in IM :
    Leave("pysignature", fname, s, imports, FALSE,
          get_signature(Enter(fname), s, imports, FileAt(fname)))

PyLocation(FN, EX, IM) ==
  \E fname \in FN, s \in EX, imports \in IM :
    Leave("pylocation", fname, s, imports, FALSE,
          get_location(Enter(fname), s, imports, FileAt(fname)))

ParseSource(FN) ==
  \E fname \in FN, only_reload \in BOOLEAN :
    Leave("parse_source", fname, << >>, NoneValue, only_reload,
          parse_source(Enter(fname), only_reload, FileAt(fname)))

\* the user saves another text to a file
EditFile(FN, FS) ==
  \E p \in FN \cap Paths, f \in FS :
    /\ files[p] # f
    /\ files' = [files EXCEPT ![p] = f]
    /\ last' = [NoCall EXCEPT !.op = "edit", !.fname = p]
    /\ UNCHANGED <<instances, docs, sys_modules, cwd, attempted>>

OneFile == {"/d/a.py"}

Next ==
  \/ GetAllCompletions(OneFile, ListExprs, ImportArgs)
  \/ PyComplete(OneFile, Exprs, ImportArgs)
  \/ PyHelp(OneFile, LookupExprs, LookupImports)
  \/ PyDocstring(OneFile, LookupExprs, LookupImports)
  \/ PySignature(OneFile, LookupExprs, LookupImports)
  \/ PyLocation(OneFile, LookupExprs, LookupImports)
  \/ ParseSource(OneFile)
  \/ EditFile(OneFile, Files)

Spec == Init /\ [][Next]_vars

\* ------------------------------------------------------------------------
\* The registry with several file names
\* ------------------------------------------------------------------------
NextRegistry ==
  \/ GetAllCompletions(Fnames, {s_a}, {NoneValue, PyList(<<Import(s_ab)>>)})
  \/ ParseSource(Fnames)

SpecRegistry == Init /\ [][NextRegistry]_vars

\* ------------------------------------------------------------------------
\* _load_symbol on a document whose namespace the imports built
\* ------------------------------------------------------------------------
s_ab_c_y     == s_ab_c \o <<DOT>> \o s_y          \* "ab.c.y"
s_ab_zz_d    == s_ab \o <<DOT>> \o s_zz \o <<DOT>> \o s_d   \* "ab.zz.d"
s_zz_d       == s_zz \o <<DOT>> \o s_d            \* "zz.d"
s_os_x       == s_os \o <<DOT>> \o s_x            \* "os.x"
s_None_class == s_None \o <<DOT>> \o s_class      \* "None.__class__"

LoadExprs == {s_ab_d, s_ab_c, s_ab_c_y, s_ab_zz_d, s_zz_d, s_os_x, s_None_class}

\* self._load_symbol(s, strict) on the document of fname
LoadSymbol(FN, EX) ==
  \E fname \in FN, s \in EX, strict \in BOOLEAN :
    Leave(IF strict THEN "load_symbol_strict" ELSE "load_symbol",
          fname, s, NoneValue, FALSE,
          load_symbol(Enter(fname), s, strict))

NextLookup ==
  \/ LoadSymbol(OneFile, LoadExprs)
  \/ GetAllCompletions(OneFile, {s_a},
                       {PyList(<<Import(s_ab)>>), PyList(<<Import(s_abc)>>)})

SpecLookup == Init /\ [][NextLookup]_vars

\* ------------------------------------------------------------------------
\* The two visitors on enumerated syntax trees
\* ------------------------------------------------------------------------
RECURSIVE SeqsUpTo(_, _)
SeqsUpTo(S, n) ==
  IF n = 0 THEN {<< >>}
  ELSE SeqsUpTo(S, n - 1)
         \cup {Append(q, x) : q \in {r \in SeqsUpTo(S, n - 1) : Len(r) = n - 1},
                              x \in S}

self_x == Attribute(Name(s_self), s_x)

\* the top-level statements the trees are built from.  Assignments to
\* self.attr occur inside methods only: an assignment to self.attr placed
\* directly in a class body is the same node object in the class body and in
\* _class_assignments, and CodeRemover_visit_body does not follow that sharing.
Shapes ==
  {Import(s_ab),
   Import(s_zz),
   ImportFrom(s_future, s_d),
   If(<<Import(s_abc)>>, <<FunctionDef(s_g, << >>, << >>, <<Import(s_ab)>>)>>),
   TryExcept(<<Import(s_zz)>>, <<ExceptHandler(<<Import(s_ab)>>)>>),
   FunctionDef(s_f, <<s_a>>, << >>, <<Import(s_abc), Pass>>),
   FunctionDef(s_g, << >>, << >>, <<Expr(Str(1))>>),
   ClassDef(s_Ab, << >>,
            <<Import(s_abc),
              FunctionDef(s_f, <<s_self>>, << >>,
                          <<Assign(<<self_x>>, Str(1)),
                            Assign(<<self_x>>, Call(Name(s_g)))>>)>>),
   ClassDef(s_Bb, << >>,
            <<FunctionDef(s_f, <<s_self>>, << >>,
                          <<Assign(<<self_x>>, Call(Name(s_Ab))),
                            Assign(<<self_x>>, Num)>>)>>),
   Assign(<<Name(s_x)>>, Num),
   Assign(<<Tuple(<<Name(s_a), Name(s_c)>>)>>, Tuple(<<Num, Num>>)),
   Assign(<<Name(s_y)>>, Call(Name(s_Ab))),
   Expr(Call(Name(s_f)))}

Trees == {Module(b) : b \in SeqsUpTo(Shapes, MaxStmts)}

InitReduce ==
  /\ instances = EmptyDict
  /\ docs = << >>
  /\ \E t \in Trees :
       files = [p \in Paths |-> IF p \in OneFile THEN SourceFile(t)
                                ELSE MissingFile]
  /\ sys_modules = {}
  /\ cwd = "/"
  /\ last = NoCall
  /\ attempted = {}

\* ImportExtractor().get_import_code(node, fname) on the tree of the file
GetImportCode(FN) ==
  \E fname \in FN \cap Paths :
    /\ \E import_body \in {get_import_body(files[fname].tree)} :
         last' = [NoCall EXCEPT
                    !.op = "get_import_code", !.fname = fname,
                    !.ret = PyList(import_body),
                    !.exc = compile_imports_exc(import_body)]
    /\ UNCHANGED <<instances, docs, files, sys_modules, cwd, attempted>>

\* CodeRemover().get_transformed_code(node, fname) on the tree of the file
GetTransformedCode(FN) ==
  \E fname \in FN \cap Paths :
    /\ \E reduced \in {get_transformed_body(files[fname].tree)} :
         last' = [NoCall EXCEPT
                    !.op = "get_transformed_code", !.fname = fname,
                    !.ret = PyList(reduced.body),
                    !.exc = IF reduced.exc # "" THEN reduced.exc
                            ELSE compile_reduced_exc(reduced.body)]
    /\ UNCHANGED <<instances, docs, files, sys_modules, cwd, attempted>>

NextReduce ==
  \/ GetImportCode(OneFile)
  \/ GetTransformedCode(OneFile)
  \/ ParseSource(OneFile)

SpecReduce == InitReduce /\ [][NextReduce]_vars

\* ------------------------------------------------------------------------
\* Properties
\* ------------------------------------------------------------------------
\* the document of fname before and after the step
PreDoc(fname) ==
  IF Has(instances, fname) THEN docs[instances[fname]]
  ELSE PyCompleteDocument(fname)
PostDoc(fname) == docs'[instances'[fname]]
CurDoc(fname) == docs[instances[fname]]

\* the calls that begin with self._import_modules(imports)
AppliedImports(call) == call.mid # NoneValue

\* the call ran the body of parse_source
RanParse(call) ==
  call.op = "parse_source" /\ (~call.only_reload \/ call.fname \in attempted)

\* the names the statements of an imports list bind
BoundBy(imports) ==
  {imports.items[i].name :
     i \in {j \in DOMAIN imports.items :
              /\ imports.items[j].type = "Import"
              /\ imports.items[j].name \in DOMAIN ModuleAttrs}}

\* names visible whatever was imported
AlwaysVisible == kwlist \cup builtin_dir \cup DOMAIN module_globals

\* C1: when a call passes an explicit imports list that differs from the
\* cached explicit list, then after _import_modules the symbol caches are empty
\* and the local namespace holds only names bound by the new list, and the
\* completions returned hold no name that only the old list bound.
C1_ImportsChangeClears ==
  (/\ AppliedImports(last)
   /\ last.imports # NoneValue
   /\ last.cached # NoneValue
   /\ last.imports # last.cached)
  => /\ last.mid.symnames = << >>
     /\ DOMAIN last.mid.symobjs = {}
     /\ DOMAIN last.mid.locald \subseteq BoundBy(last.imports)
     /\ (last.op = "get_all_completions" /\ last.exc = "")
          => \A i \in DOMAIN last.ret.items :
               last.ret.items[i] \notin
                 BoundBy(last.cached) \ (BoundBy(last.imports) \cup AlwaysVisible)

\* "import ab" was cached, "import abc" is applied and "a" completes to abc only
C1_Witness ==
  /\ last.op = "get_all_completions"
  /\ last.cached = PyList(<<Import(s_ab)>>)
  /\ last.imports = PyList(<<Import(s_abc)>>)
  /\ last.s = s_a
  /\ last.exc = ""
  /\ last.ret = PyList(<<s_abc>>)

\* C2: no exception reaches the caller of an entry point.
C2_NoExceptionPropagates == last.exc = ""

\* C3: a call with imports=None runs parse_source exactly when no parse was
\* attempted for the document before, and once one was attempted
\* _import_modules(None) leaves imports, locald, symnames and symobjs as they
\* were.
C3_ParseOnlyOnce ==
  [][(AppliedImports(last') /\ last'.imports = NoneValue)
       => /\ (last'.parses = 1) <=> (last'.fname \notin attempted)
          /\ last'.parses \in {0, 1}
          /\ (last'.fname \in attempted)
               => /\ last'.mid.imports = PreDoc(last'.fname).imports
                  /\ last'.mid.locald = PreDoc(last'.fname).locald
                  /\ last'.mid.symnames = PreDoc(last'.fname).symnames
                  /\ last'.mid.symobjs = PreDoc(last'.fname).symobjs]_vars

\* a call with imports=None on a parsed document that has cached state
C3_Witness ==
  /\ AppliedImports(last)
  /\ last.imports = NoneValue
  /\ last.parses = 0
  /\ last.fname \in attempted
  /\ last.mid.imports # NoneValue
  /\ DOMAIN last.mid.locald # {}
  /\ last.mid.symnames # << >>

\* the text of the file is not valid Python: ast.parse or the compiler
\* rejects it
HasSyntaxError(file) ==
  /\ file.exists
  /\ \/ ~file.syntax_ok
     \/ \E i \in DOMAIN walk(<<file.tree>>) :
          /\ walk(<<file.tree>>)[i].type = "FunctionDef"
          /\ HasDuplicates(walk(<<file.tree>>)[i].args)

SameNamespaces(d1, d2) ==
  /\ d1.imports = d2.imports
  /\ d1.globald = d2.globald
  /\ d1.locald = d2.locald
  /\ d1.symnames = d2.symnames
  /\ d1.symobjs = d2.symobjs

\* C4: parse_source on a file with a syntax error returns a non-empty error
\* string and leaves imports, globald, locald, symnames and symobjs as they
\* were.
C4_SyntaxErrorKeepsState ==
  [][(RanParse(last') /\ HasSyntaxError(FileAt(last'.fname)))
       => /\ last'.exc = ""
          /\ last'.ret.type = "str"
          /\ last'.ret.text # ""
          /\ SameNamespaces(PostDoc(last'.fname), PreDoc(last'.fname))]_vars

\* executing the import unit of the file raises: its first statement is a
\* __future__ import and the import of __future__ fails at run time
ImportUnitRaises(file) ==
  /\ file.exists /\ file.syntax_ok /\ ~file.future_ok
  /\ file.tree.body # << >>
  /\ file.tree.body[1].type = "ImportFrom"
  /\ file.tree.body[1].module = s_future
  /\ file.tree.body[1].name \in future_features

\* C5: when executing the import unit raises, parse_source returns the
\* failure description and globald, locald, symnames and symobjs are as
\* before the call.
C5_ImportFailureRestores ==
  [][(RanParse(last') /\ ImportUnitRaises(FileAt(last'.fname)))
       => /\ last'.exc = ""
          /\ last'.ret = RetStr("ImportError")
          /\ SameNamespaces(PostDoc(last'.fname), PreDoc(last'.fname))]_vars

\* parse_source failed in the import unit of a document that had names bound
\* and cached
C5_Witness ==
  /\ last.op = "parse_source"
  /\ last.ret = RetStr("ImportError")
  /\ ImportUnitRaises(FileAt(last.fname))
  /\ DOMAIN CurDoc(last.fname).locald # {}
  /\ CurDoc(last.fname).symnames # << >>
  /\ DOMAIN CurDoc(last.fname).symobjs # {}

\* the longest string every candidate starts with
LongestCommonPrefix(cands) ==
  LET common == {p \in {SubSeq(cands[1], 1, n) : n \in 0..Len(cands[1])} :
                   \A i \in DOMAIN cands : startswith(cands[i], p)}
  IN CHOOSE p \in common : \A q \in common : Len(q) <= Len(p)

\* what the contract of complete gives for s and the candidates
CompleteContract(s, cands) ==
  LET typed == SubSeq(s, rfind_dot(s) + 1, Len(s))
      lcp   == LongestCommonPrefix(cands)
  IN
  IF s = << >> THEN RetStr("")
  ELSE IF cands = << >> THEN NoneValue
  ELSE IF Len(cands) = 1 \/ Len(lcp) > Len(typed)
  THEN PyList(<<SubSeq(lcp, Len(typed) + 1, Len(lcp))>>)
  ELSE PyList(cands)

\* C6: pycomplete returns "" for empty input, None when there is no
\* candidate, the one-element list with the rest of the longest common prefix
\* when there is one candidate or the prefix is longer than the last segment
\* typed, and the candidates otherwise.
C6_CompleteContract ==
  (last.op = "pycomplete" /\ last.exc = "")
    => last.ret = CompleteContract(last.s,
                                   IF last.cands = NoneValue THEN << >>
                                   ELSE last.cands.items)

\* "a" with ab and abc both visible completes by "b"
C6_Witness ==
  /\ last.op = "pycomplete"
  /\ last.s = s_a
  /\ last.cands = PyList(<<s_ab, s_abc>>)
  /\ last.exc = ""
  /\ last.ret = PyList(<<<<98>>>>)
  /\ {s_ab, s_abc} \subseteq DOMAIN CurDoc(last.fname).locald

\* C8: a symnames cache that is not empty is the sorted union of the
\* keywords, the keys of locald, the keys of globald and the builtins.
C8_SymnamesCurrent ==
  \A i \in DOMAIN docs :
    docs[i].symnames # << >>
      => docs[i].symnames =
           sorted(kwlist \cup DOMAIN docs[i].locald \cup DOMAIN docs[i].globald
                    \cup builtin_dir)

\* C7: the registry never loses or replaces an entry, creates a document
\* only for a file name that has none, and no two file names share a document.
C7_RegistryUnique ==
  [][/\ \A p \in DOMAIN instances :
          p \in DOMAIN instances' /\ instances'[p] = instances[p]
     /\ \A p, q \in DOMAIN instances' :
          instances'[p] = instances'[q] => p = q
     /\ \A p \in DOMAIN instances' : docs'[instances'[p]].fname = p
     /\ Len(docs') = Cardinality(DOMAIN instances')
     /\ (last'.op # "edit")
          => /\ DOMAIN instances' = DOMAIN instances \cup {last'.fname}
             /\ Len(docs') = Len(docs)
                  + (IF last'.fname \in DOMAIN instances THEN 0 ELSE 1)]_vars

\* every file name has its document and a registered one was called again
C7_Witness ==
  /\ DOMAIN instances = Fnames
  /\ last.op = "get_all_completions"
  /\ last.imports = NoneValue
  /\ last.parses = 0
  /\ \A p \in Fnames : docs[instances[p]].parse_source_called

\* the tree of the file the visitors ran on
TreeOf(call) == files[call.fname].tree

\* the source is valid Python: no duplicate parameter, and __future__ imports
\* name a feature and come first
ValidSource(tree) ==
  /\ \A i \in DOMAIN walk(<<tree>>) :
       walk(<<tree>>)[i].type = "FunctionDef"
         => ~HasDuplicates(walk(<<tree>>)[i].args)
  /\ \A i \in DOMAIN tree.body :
       (tree.body[i].type = "ImportFrom" /\ tree.body[i].module = s_future)
         => /\ tree.body[i].name \in future_features
            /\ \A j \in 1..(i - 1) :
                 tree.body[j].type = "ImportFrom" /\ tree.body[j].module = s_future

\* the names the module binds by a top-level def, class or assignment
TopLevelNames(tree) ==
  UNION {LET st == tree.body[i] IN
         CASE st.type \in {"FunctionDef", "ClassDef"} -> {st.name}
           [] st.type = "Assign" ->
                UNION {LET t == st.targets[k] IN
                       CASE t.type = "Name"  -> {t.id}
                         [] t.type = "Tuple" -> {t.elts[e].id : e \in DOMAIN t.elts}
                         [] OTHER -> {} : k \in DOMAIN st.targets}
           [] OTHER -> {} : i \in DOMAIN tree.body}

\* C9: for a valid source, building and executing the reduced module does not
\* raise, and every name the source binds at top level by a def, a class or an
\* assignment is bound afterwards.
C9_ReducedModuleBindsNames ==
  (RanParse(last) /\ ValidSource(TreeOf(last)))
    => /\ last.exc = ""
       /\ last.ret = NoneValue
       /\ TopLevelNames(TreeOf(last)) \subseteq DOMAIN CurDoc(last.fname).locald

\* positions of the nodes of a tree: the child indices from the root
RECURSIVE PositionsOf(_, _)
PositionsOf(node, path) ==
  {path} \cup UNION {PositionsOf(ChildNodes(node)[i], Append(path, i)) :
                       i \in DOMAIN ChildNodes(node)}

RECURSIVE NodeAt(_, _)
NodeAt(node, path) ==
  IF path = << >> THEN node
  ELSE NodeAt(ChildNodes(node)[Head(path)], Tail(path))

OutsideDefs(root, path) ==
  \A k \in 0..(Len(path) - 1) :
    NodeAt(root, SubSeq(path, 1, k)).type \notin {"FunctionDef", "ClassDef"}

IsImportAt(root, path) == NodeAt(root, path).type \in {"Import", "ImportFrom"}

\* the imports outside every def and class, in the order of the source
ModuleLevelImports(root) ==
  LET at == sorted({p \in PositionsOf(root, << >>) :
                      IsImportAt(root, p) /\ OutsideDefs(root, p)})
  IN [i \in DOMAIN at |-> NodeAt(root, at[i])]

IsFutureImport(n) == n.type = "ImportFrom" /\ n.module = s_future

\* the unit of a tree: the __future__ imports bare, the others each in its
\* own try-except-pass
ExpectedImportUnit(root) ==
  [i \in DOMAIN ModuleLevelImports(root) |->
     LET n == ModuleLevelImports(root)[i] IN
     IF IsFutureImport(n) THEN n
     ELSE TryExcept(<<n>>, <<ExceptHandler(<<Pass>>)>>)]

\* the unit compiles: its __future__ imports name a feature and come first
UnitCompiles(root) ==
  \A i \in DOMAIN ModuleLevelImports(root) :
    IsFutureImport(ModuleLevelImports(root)[i])
      => /\ ModuleLevelImports(root)[i].name \in future_features
         /\ \A j \in 1..(i - 1) : IsFutureImport(ModuleLevelImports(root)[j])

\* C10: the import unit holds exactly the imports outside every def and
\* class, in source order, __future__ imports bare and every other import in
\* its own guard; executed by parse_source, every such import of a module that
\* exists is bound although others fail.
C10_ImportUnit ==
  /\ (last.op = "get_import_code")
       => last.ret.items = ExpectedImportUnit(TreeOf(last))
  /\ (RanParse(last) /\ UnitCompiles(TreeOf(last)))
       => \A i \in DOMAIN ModuleLevelImports(TreeOf(last)) :
            LET n == ModuleLevelImports(TreeOf(last))[i] IN
            (n.type = "Import" /\ n.name \in DOMAIN ModuleAttrs)
              => n.name \in DOMAIN CurDoc(last.fname).locald

\* a unit of two imports taken from inside a try block, of a tree that also
\* has an import inside a def
C10_Witness ==
  /\ last.op = "get_import_code"
  /\ Len(last.ret.items) = 2
  /\ \E p \in PositionsOf(TreeOf(last), << >>) :
       IsImportAt(TreeOf(last), p) /\ ~OutsideDefs(TreeOf(last), p)
  /\ \E p \in PositionsOf(TreeOf(last), << >>) :
       IsImportAt(TreeOf(last), p) /\ OutsideDefs(TreeOf(last), p) /\ Len(p) > 1

\* the prefixes _load_symbol tried in a call and what each resolved to
Prefix(call, i) == join_dot(SubSeq(split_dot(call.s), 1, i))
Resolved(call, i) == call.trail[i].val # VNone
FirstFailure(call) ==
  CHOOSE i \in DOMAIN call.trail :
    ~Resolved(call, i) /\ \A j \in 1..(i - 1) : Resolved(call, j)

\* the call ran the loop of _load_symbol on a path of two or more segments
RanLoadLoop(call) ==
  /\ call.op \in {"load_symbol", "load_symbol_strict"}
  /\ Len(split_dot(call.s)) >= 2
  /\ call.trail # << >>

LastResolved(call) ==
  CHOOSE i \in DOMAIN call.trail :
    Resolved(call, i) /\ \A j \in (i + 1)..Len(call.trail) : ~Resolved(call, j)

\* C11: _load_symbol on a path of two or more segments resolves the prefixes
\* in increasing length; when a prefix fails (it cannot be evaluated or
\* imported, or it evaluates to None), strict gives nothing and non-strict
\* gives the object of the last prefix that resolved, whether before or after
\* a failed one; when every prefix resolves both give the object of the full
\* path.
C11_LoadSymbolLastResolved ==
  RanLoadLoop(last)
    => /\ \A i \in DOMAIN last.trail : last.trail[i].s = Prefix(last, i)
       /\ IF \A i \in DOMAIN last.trail : Resolved(last, i)
          THEN /\ Len(last.trail) = Len(split_dot(last.s))
               /\ last.ret = last.trail[Len(last.trail)].val
          ELSE IF last.op = "load_symbol_strict"
          THEN last.ret = VNone
          ELSE /\ Len(last.trail) = Len(split_dot(last.s))
               /\ last.ret = IF \A i \in DOMAIN last.trail : ~Resolved(last, i)
                              THEN VNone
                              ELSE last.trail[LastResolved(last)].val

\* a non-strict call on "ab.zz.d" returned the module ab after the two longer
\* prefixes failed
C11_Witness ==
  /\ RanLoadLoop(last)
  /\ last.op = "load_symbol"
  /\ last.s = s_ab_zz_d
  /\ Resolved(last, 1) /\ ~Resolved(last, 2) /\ ~Resolved(last, 3)
  /\ last.ret = VModule(s_ab)

\* C11 as the specification words it: after a failed prefix no longer prefix
\* replaces the result of a non-strict call
C11_LoadSymbolPrefixes ==
  RanLoadLoop(last)
    => /\ \A i \in DOMAIN last.trail : last.trail[i].s = Prefix(last, i)
       /\ IF \A i \in DOMAIN last.trail : Resolved(last, i)
          THEN /\ Len(last.trail) = Len(split_dot(last.s))
               /\ last.ret = last.trail[Len(last.trail)].val
          ELSE IF last.op = "load_symbol_strict"
          THEN last.ret = VNone
          ELSE last.ret = IF FirstFailure(last) = 1 THEN VNone
                          ELSE last.trail[FirstFailure(last) - 1].val

\* the function and method definitions CodeRemover visits: those of the
\* module body and of the bodies of its classes
VisitedDefs(tree) ==
  {tree.body[i] : i \in {j \in DOMAIN tree.body :
                            tree.body[j].type = "FunctionDef"}}
    \cup UNION {{tree.body[i].body[k] :
                   k \in {j \in DOMAIN tree.body[i].body :
                            tree.body[i].body[j].type = "FunctionDef"}} :
                i \in {j \in DOMAIN tree.body : tree.body[j].type = "ClassDef"}}

IsDocstring(stmt) == stmt.type = "Expr" /\ stmt.value.type = "Str"

\* [docstring, pass] or [pass]
ExpectedBody(def) ==
  IF IsDocstring(def.body[1]) THEN <<def.body[1], Pass>> ELSE <<Pass>>

FunctionReduced(def) ==
  /\ visit_FunctionDef(def).exc = ""
  /\ visit_FunctionDef(def).node.body = ExpectedBody(def)

\* C12: for every function or method definition with a non-empty body, a
\* docstring-only body included, the reducer succeeds and yields the body
\* [docstring, pass] when the first statement is a bare string literal and
\* [pass] otherwise; the reduction never fails on a function definition.
C12_FunctionBodyReduced ==
  last.op = "get_transformed_code"
    => /\ \A def \in VisitedDefs(TreeOf(last)) :
            def.body # << >> => FunctionReduced(def)
       /\ last.exc # "IndexError"

\* the assignments to self.<attr> under a class, in the order of ast.walk
SelfAssigns(cls) ==
  SelectSeq(SelectSeq(walk(<<cls>>), IsAssign), IsSelfTarget)

\* the neutralized value of the assignment is the bare placeholder None
IsPlaceholder(assign) ==
  /\ neutralized(assign.value).value.type = "Name"
  /\ neutralized(assign.value).value.id = s_None

\* the assignment of the class to attr that is to be emitted: the first one
\* whose neutralized value is not the placeholder, or else the first one
ChosenIndex(cls, attr) ==
  IF \E i \in DOMAIN SelfAssigns(cls) :
       SelfAssigns(cls)[i].targets[1].attr = attr
         /\ ~IsPlaceholder(SelfAssigns(cls)[i])
  THEN CHOOSE i \in DOMAIN SelfAssigns(cls) :
         /\ SelfAssigns(cls)[i].targets[1].attr = attr
         /\ ~IsPlaceholder(SelfAssigns(cls)[i])
         /\ \A j \in 1..(i - 1) :
              SelfAssigns(cls)[j].targets[1].attr = attr
                => IsPlaceholder(SelfAssigns(cls)[j])
  ELSE CHOOSE i \in DOMAIN SelfAssigns(cls) :
         /\ SelfAssigns(cls)[i].targets[1].attr = attr
         /\ \A j \in 1..(i - 1) : SelfAssigns(cls)[j].targets[1].attr # attr

\* what visit_ClassDef collected for the class
Collected(cls) ==
  self_assignments_loop(SelectSeq(walk(<<cls>>), IsAssign), 1, cls.name, << >>)

OneClassAssignment(cls, attr) ==
  /\ Collected(cls).exc = ""
  /\ Cardinality({i \in DOMAIN Collected(cls).d :
                    Collected(cls).d[i].var = attr}) = 1
  /\ \A i \in DOMAIN Collected(cls).d :
       Collected(cls).d[i].var = attr
         => Collected(cls).d[i].node
              = replace_unsafe_value(SelfAssigns(cls)[ChosenIndex(cls, attr)],
                                     cls.name)

\* C13: for every class and every attribute assigned through self.<attr> in
\* it, reduction succeeds and emits exactly one class-level assignment for the
\* attribute: the first one, except that a later one with a non-placeholder
\* value replaces an earlier placeholder; also when an earlier assignment
\* for the attribute is emitted as a guarded statement.
C13_OneClassAssignment ==
  last.op = "get_transformed_code"
    => /\ \A i \in DOMAIN TreeOf(last).body :
            TreeOf(last).body[i].type = "ClassDef"
              => \A k \in DOMAIN SelfAssigns(TreeOf(last).body[i]) :
                   OneClassAssignment(
                     TreeOf(last).body[i],
                     SelfAssigns(TreeOf(last).body[i])[k].targets[1].attr)
       /\ last.exc # "AttributeError"

\* the local namespace the statements of the cached imports list build on an
\* empty one
ImportedLocald(doc) ==
  import_loop(Frame([doc EXCEPT !.locald = EmptyDict], sys_modules, cwd),
              doc.imports, 1).self.locald

\* locald is the namespace of the cached list plus modules bound by
\* _get_symbol_object
BuiltFromImports(doc) ==
  /\ \A n \in DOMAIN ImportedLocald(doc) :
       Has(doc.locald, n) /\ doc.locald[n] = ImportedLocald(doc)[n]
  /\ \A n \in DOMAIN doc.locald :
       ~Has(ImportedLocald(doc), n) => doc.locald[n].kind = "module"

\* C14: in every reachable state of a document whose cached imports list is
\* a list L, the local namespace is the one the statements of L build on an
\* empty namespace (plus modules bound lazily by _get_symbol_object), also
\* after _import_modules aborted with TypeError on another list and after
\* parse_source replaced the local namespace.
C14_LocaldBuiltFromCachedImports ==
  \A i \in DOMAIN docs :
    docs[i].imports # NoneValue => BuiltFromImports(docs[i])

====
